---- MODULE Spec2Model ----
(***************************************************************************)
(* A model of the logger of nc_log.c: the process-wide struct logger       *)
(* (name, level, fd, nerror), its lifecycle operations (log_init,          *)
(* log_deinit, log_reopen), its level control (log_level_up,               *)
(* log_level_down, log_level_set, log_loggable) and its emission           *)
(* operations (_log, _log_stderr, _log_hexdump).                           *)
(*                                                                         *)
(* Every call is one atomic step.  Besides the logger's fields the state   *)
(* holds the descriptors the logger has open in the operating system, and  *)
(* a record of the last call: its name, arguments, result, the system      *)
(* calls it issued in order, the lengths its formatting went through, and  *)
(* the text it gave to write.                                              *)
(***************************************************************************)
EXTENDS Integers, Sequences, FiniteSets, TLC

(***************************************************************************)
(* Program constants.  The levels and the line length are defined in       *)
(* nc_log.h; they are what the specification's range [EMERG, PVERB] and    *)
(* "maximum line length" stand for.                                        *)
(***************************************************************************)
LOG_EMERG == 0

LOG_PVERB == 11

LOG_MAX_LEN == 256

STDERR_FILENO == 2

(***************************************************************************)
(* Bounds of the model.                                                    *)
(***************************************************************************)
\* file descriptors the process can still obtain: FirstFd .. FirstFd + MaxFiles - 1
MaxFiles == 1

\* nerror is counted up to this value; no write fails beyond it
MaxErrors == 1

\* level arguments range over LOG_EMERG - LevelSlack .. LOG_PVERB + LevelSlack
LevelSlack == 1

\* formatted lengths are taken up to LenSlack around each buffer boundary
LenSlack == 1

(***************************************************************************)
(* Helpers                                                                 *)
(***************************************************************************)
MAX(a, b) == IF a > b THEN a ELSE b

MIN(a, b) == IF a < b THEN a ELSE b

\* the name argument: NULL, the empty string, or a path
NullName == "<NULL>"

Names == {NullName, "", "nc.log"}

strlen(s) == IF s = NullName THEN 0 ELSE Len(s)

\* the lowest descriptor the process's standard streams leave free
FirstFd == STDERR_FILENO + 1

Fds == FirstFd .. (FirstFd + MaxFiles - 1)

\* the levels asked of log_loggable: every level, and some outside the range
LevelArgs == (LOG_EMERG - LevelSlack) .. (LOG_PVERB + LevelSlack)

\* the levels passed to log_init and log_level_set: both ends of the range,
\* a level inside it, and levels below and above it
SetArgs == {LOG_EMERG - LevelSlack, LOG_EMERG, (LOG_EMERG + LOG_PVERB) \div 2,
            LOG_PVERB, LOG_PVERB + LevelSlack}

VARIABLES
    level,      \* logger.level
    name,       \* logger.name
    fd,         \* logger.fd
    nerror,     \* logger.nerror
    open_fds,   \* descriptors opened by the logger and not closed since
    alive,      \* FALSE once abort() has ended the process
    tick,       \* flips at every call
    op,         \* the last call
    arg,        \* its arguments
    ret,        \* its result: <<>> for none, <<v>> for a returned value
    sys,        \* the system calls it issued, in order
    fmt,        \* the running lengths of its formatting
    out,        \* the text it gave to its last write
    errno,      \* errno after it: the value it had when the call was made, or
                \* the value a failed system call of the call left
    race        \* the threads calling the logger at the same time, if any

vars == <<level, name, fd, nerror, open_fds, alive, tick, op, arg, ret, sys, fmt,
          out, errno, race>>

logger == <<level, name, fd, nerror>>

(***************************************************************************)
(* System calls, as the record of a call keeps them.                       *)
(***************************************************************************)
SysOpen(f) == [call |-> "open", fd |-> f, ok |-> f >= 0, len |-> 0]

SysClose(f) == [call |-> "close", fd |-> f, ok |-> f \in open_fds, len |-> 0]

SysWrite(f, n, ok) == [call |-> "write", fd |-> f, ok |-> ok, len |-> n]

\* open(name, O_WRONLY | O_APPEND | O_CREAT, 0644): the lowest free
\* descriptor, or -1; it can always fail (permissions, a missing directory)
\* and must fail when the process has no descriptor left
OpenResults(held) ==
    {-1} \cup (IF Fds \ held = {} THEN {}
               ELSE {CHOOSE f \in Fds \ held : \A g \in Fds \ held : f <= g})

\* nc_write(fd, buf, n): reports success or failure (n < 0); failures are
\* counted up to MaxErrors
WriteResults == {TRUE} \cup (IF nerror < MaxErrors THEN {FALSE} ELSE {})

(***************************************************************************)
(* Formatting into a fixed buffer.                                         *)
(*                                                                         *)
(* nc_scnprintf / nc_vscnprintf are defined outside nc_log.c.  The         *)
(* specification describes them as a bounded, truncating formatter that    *)
(* returns the bytes written, or the bytes that would be needed; `mode'    *)
(* says which of the two the formatter does.  `size' is the value of the   *)
(* int expression passed as the size_t argument and `need' the length of   *)
(* the fully formatted text.                                               *)
(***************************************************************************)
ScnModes == {"written", "needed"}

nc_scnprintf(mode, size, need) ==
    IF mode = "needed" THEN need
    ELSE IF size <= 0 THEN 0
    ELSE IF need < size THEN need
    ELSE size - 1

\* len += nc_scnprintf(buf + len, size - len, ...), once per element of
\* needs.  a.over records a call that stores outside the buffer: a negative
\* size - len converts to a huge size_t, so nothing bounds the formatter,
\* which stores at buf + len, past the end of buf.
RECURSIVE AccumulateFrom(_, _, _, _, _)
AccumulateFrom(mode, a, size, needs, i) ==
    IF i > Len(needs) THEN a
    ELSE AccumulateFrom(mode,
                        [len  |-> a.len + nc_scnprintf(mode, size - a.len, needs[i]),
                         over |-> a.over \/ (size - a.len < 0)],
                        size, needs, i + 1)

Accumulate(mode, a, size, needs) == AccumulateFrom(mode, a, size, needs, 1)

EmptyBuf == [len |-> 0, over |-> FALSE]

NoFmt == [size |-> 0, lens |-> <<>>, nl |-> -1, wlen |-> 0, over |-> FALSE]

\* length of asctime()'s result, "Www Mmm dd hh:mm:ss yyyy\n"
ASCTIME_LEN == 25

\* the length "[%.*s] %s:%d " formats to, for a file name of flen
\* characters and a line number of digits characters
PrefixNeed(flen, digits) == 1 + (ASCTIME_LEN - 1) + 2 + flen + 1 + digits + 1

\* the formatting of _log without the newline
LogFormat_NoNewline(mode, pneed, mneed) ==
    LET size == LOG_MAX_LEN
        a1 == Accumulate(mode, EmptyBuf, size, <<pneed>>)
        a2 == Accumulate(mode, a1, size, <<mneed>>)
    IN  [size |-> size,
         lens |-> <<a1.len, a2.len>>,
         nl   |-> -1,
         wlen |-> a2.len,
         over |-> a2.over \/ a2.len > size]

\* the formatting of _log: prefix, message, newline
LogFormat(mode, pneed, mneed) ==
    LET size == LOG_MAX_LEN
        a1 == Accumulate(mode, EmptyBuf, size, <<pneed>>)
        a2 == Accumulate(mode, a1, size, <<mneed>>)
    IN  [size |-> size,
         lens |-> <<a1.len, a2.len>>,
         nl   |-> a2.len,
         wlen |-> a2.len + 1,
         over |-> a2.over \/ a2.len >= size]

\* the formatting of _log_stderr: message, newline
StderrFormat(mode, mneed) ==
    LET size == 4 * LOG_MAX_LEN
        a1 == Accumulate(mode, EmptyBuf, size, <<mneed>>)
    IN  [size |-> size,
         lens |-> <<a1.len>>,
         nl   |-> a1.len,
         wlen |-> a1.len + 1,
         over |-> a1.over \/ a1.len >= size]

\* one row of the dump, for k bytes of data: the offset, 16 fields of a
\* byte or of blanks (the 8th one space wider), "  |", k characters, "|\n"
RowNeeds(k) ==
    <<10>> \o [i \in 1..16 |-> IF i = 8 THEN 4 ELSE 3] \o <<3>>
           \o [i \in 1..k |-> 1] \o <<2>>

\* the loop of _log_hexdump
RECURSIVE HexRows(_, _, _, _)
HexRows(mode, a, size, datalen) ==
    IF datalen # 0 /\ a.len < size - 1
    THEN HexRows(mode, Accumulate(mode, a, size, RowNeeds(MIN(16, datalen))),
                 size, datalen - MIN(16, datalen))
    ELSE a

HexFormat(mode, datalen) ==
    LET size == 8 * LOG_MAX_LEN
        a == HexRows(mode, EmptyBuf, size, datalen)
    IN  [size |-> size,
         lens |-> <<a.len>>,
         nl   |-> -1,
         wlen |-> a.len,
         over |-> a.over \/ a.len > size]

(***************************************************************************)
(* The texts.  A formatter call told to format `piece' at length n of the  *)
(* buffer leaves the first characters of piece there, as many as its       *)
(* result says; the text given to write is what the calls left, one after  *)
(* the other, and the newline stored after them.                           *)
(***************************************************************************)
NoText == ""

Take(s, n) == SubSeq(s, 1, MIN(n, Len(s)))

\* a text of n characters c
RECURSIVE Rep(_, _)
Rep(c, n) ==
    IF n <= 0 THEN ""
    ELSE LET h == Rep(c, n \div 2)
         IN  h \o h \o (IF n % 2 = 1 THEN c ELSE "")

RECURSIVE WrittenFrom(_, _, _)
WrittenFrom(f, pieces, i) ==
    IF i > Len(pieces) THEN (IF f.nl >= 0 THEN "\n" ELSE "")
    ELSE Take(pieces[i], f.lens[i] - (IF i = 1 THEN 0 ELSE f.lens[i - 1]))
            \o WrittenFrom(f, pieces, i + 1)

\* the text an outcome gave to write: none if it issued no write
Written(o, pieces) ==
    IF \A i \in DOMAIN o.sys : o.sys[i].call # "write" THEN NoText
    ELSE WrittenFrom(o.fmt, pieces, 1)

\* asctime()'s result for some moment
TimeStr == "Sun Aug 11 15:55:01 2013\n"

\* "[%.*s] %s:%d " of strlen(timestr) - 1, timestr, file, line
PrefixText(file, line) ==
    "[" \o SubSeq(TimeStr, 1, Len(TimeStr) - 1) \o "] " \o file \o ":" \o line \o " "

\* a source file name of flen characters, a line number of digits
\* characters, a formatted message of mneed characters
\* "%d" of a level or a line number
DecDigits == "0123456789"

RECURSIVE DecStr(_)
DecStr(n) ==
    IF n < 0 THEN "-" \o DecStr(-n)
    ELSE IF n < 10 THEN SubSeq(DecDigits, n + 1, n + 1)
    ELSE DecStr(n \div 10) \o SubSeq(DecDigits, (n % 10) + 1, (n % 10) + 1)

\* "%0<w>x" of a number below 16^w
HexDigits == "0123456789abcdef"

RECURSIVE Hex(_, _)
Hex(n, w) ==
    IF w = 0 THEN ""
    ELSE Hex(n \div 16, w - 1) \o SubSeq(HexDigits, (n % 16) + 1, (n % 16) + 1)

\* isprint() in the "C" locale, of a byte 0 .. 255, and "%c" of such a byte
isprint(c) == 32 <= c /\ c <= 126

\* the characters 32 .. 95 and 97 .. 126 (a string cannot hold character 96,
\* the grave accent, which no data of the model contains)
AsciiLow ==
    " !\"#$%&'()*+,-./0123456789:;<=>?@ABCDEFGHIJKLMNOPQRSTUVWXYZ[\\]^_"

AsciiHigh == "abcdefghijklmnopqrstuvwxyz{|}~"

Chr(c) ==
    IF c < 96 THEN SubSeq(AsciiLow, c - 31, c - 31)
    ELSE SubSeq(AsciiHigh, c - 96, c - 96)

\* the fields with the same single blank after each of them
RECURSIVE HexFields_NoGap(_, _, _, _)
HexFields_NoGap(data, off, k, i) ==
    IF i >= 16 THEN ""
    ELSE (IF i < k THEN Hex(data[off + i + 1], 2) ELSE "  ") \o " "
            \o HexFields_NoGap(data, off, k, i + 1)

\* the fields of a row from the i-th on (i = 0 .. 15), for the k bytes of
\* data at off: "%02x%s" of a byte, "  %s" past the data; the %s is two
\* blanks for i == 7 and one otherwise
RECURSIVE HexFields(_, _, _, _)
HexFields(data, off, k, i) ==
    IF i >= 16 THEN ""
    ELSE (IF i < k THEN Hex(data[off + i + 1], 2) ELSE "  ")
            \o (IF i = 7 THEN "  " ELSE " ")
            \o HexFields(data, off, k, i + 1)

\* the characters of a row from the i-th on: "%c" of the byte if isprint,
\* of '.' if not
RECURSIVE HexChars(_, _, _, _)
HexChars(data, off, k, i) ==
    IF i >= k THEN ""
    ELSE (IF isprint(data[off + i + 1]) THEN Chr(data[off + i + 1]) ELSE ".")
            \o HexChars(data, off, k, i + 1)

\* one pass of the loop of _log_hexdump: "%08x  ", the fields, "  |", the
\* characters, "|\n"
HexRowText(data, off) ==
    LET k == MIN(16, Len(data) - off)
    IN  Hex(off, 8) \o "  " \o HexFields(data, off, k, 0) \o "  |"
            \o HexChars(data, off, k, 0) \o "|\n"

\* what the passes of the loop are to format, one pass after the other,
\* for the data from off on: the passes that n characters take
RECURSIVE HexText(_, _, _)
HexText(data, off, n) ==
    IF Len(data) - off # 0 /\ n > 0
    THEN LET row == HexRowText(data, off)
         IN  row \o HexText(data, off + 16, n - Len(row))
    ELSE ""

\* a data block of n bytes: the bytes of pat, over and over
Data(n, pat) == [i \in 1..n |-> pat[((i - 1) % Len(pat)) + 1]]

LongestText == 4 * LOG_MAX_LEN + LenSlack

AllF == Rep("f", LongestText)

AllM == Rep("m", LongestText)

FileName(flen) == SubSeq(AllF, 1, flen)

LineNo(digits) == SubSeq("7777777777", 1, digits)

Message(mneed) == SubSeq(AllM, 1, mneed)

(***************************************************************************)
(* What one emission call can do.  Each outcome is a record: the system    *)
(* calls issued, the increment of nerror, the formatting, and whether the  *)
(* process is dead afterwards.  A call whose formatting stored outside its *)
(* buffer has undefined behaviour: it may go on as written, or the process *)
(* may crash, before the write or after it.  The formatter may be of       *)
(* either kind, so the outcomes of both are possible.                      *)
(***************************************************************************)
Outcome(s, e, f, d) == [sys |-> s, err |-> e, fmt |-> f, dead |-> d]

\* Emit with the failure of the write not counted
Emit_NotCounted(dest, f, panic) ==
    {Outcome(<<SysWrite(dest, f.wlen, ok)>>, 0, f, dead) :
        ok \in WriteResults, dead \in {panic, panic \/ f.over}}
    \cup (IF f.over THEN {Outcome(<<>>, 0, f, TRUE)} ELSE {})

\* n = nc_write(dest, buf, len); if (n < 0) { l->nerror++; } and, for _log,
\* if (panic) { abort(); }
Emit(dest, f, panic) ==
    {Outcome(<<SysWrite(dest, f.wlen, ok)>>, IF ok THEN 0 ELSE 1, f, dead) :
        ok \in WriteResults, dead \in {panic, panic \/ f.over}}
    \cup (IF f.over THEN {Outcome(<<>>, 0, f, TRUE)} ELSE {})

\* _log without its test of l->fd
LogOutcomes_NoFdTest(flen, digits, panic, mneed) ==
    UNION {Emit(fd, LogFormat(mode, PrefixNeed(flen, digits), mneed), panic) :
                mode \in ScnModes}

\* _log(file, line, panic, fmt, ...)
LogOutcomes(flen, digits, panic, mneed) ==
    IF fd < 0 THEN {Outcome(<<>>, 0, NoFmt, FALSE)}
    ELSE UNION {Emit(fd, LogFormat(mode, PrefixNeed(flen, digits), mneed), panic) :
                    mode \in ScnModes}

\* _log_stderr written as _log is: to l->fd, and not at all if it is invalid
StderrOutcomes_ToDestination(mneed) ==
    IF fd < 0 THEN {Outcome(<<>>, 0, NoFmt, FALSE)}
    ELSE UNION {Emit(fd, StderrFormat(mode, mneed), FALSE) : mode \in ScnModes}

\* _log_stderr(fmt, ...)
StderrOutcomes(mneed) ==
    UNION {Emit(STDERR_FILENO, StderrFormat(mode, mneed), FALSE) : mode \in ScnModes}

\* _log_hexdump(file, line, data, datalen, fmt, ...)
HexdumpOutcomes(datalen) ==
    IF fd < 0 THEN {Outcome(<<>>, 0, NoFmt, FALSE)}
    ELSE UNION {Emit(fd, HexFormat(mode, datalen), FALSE) : mode \in ScnModes}

(***************************************************************************)
(* Level control (pure parts).                                             *)
(***************************************************************************)
\* the clamp without its upper end
ClampLevel_NoUpper(lv) == MAX(LOG_EMERG, lv)

\* l->level = MAX(LOG_EMERG, MIN(level, LOG_PVERB))
ClampLevel(lv) == MAX(LOG_EMERG, MIN(lv, LOG_PVERB))

\* log_loggable with the comparison off by one, and with it reversed
log_loggable_OffByOne(lv) == IF lv >= level THEN 0 ELSE 1

log_loggable_Reversed(lv) == IF lv < level THEN 0 ELSE 1

\* log_loggable(level): 0 if level > l->level, else 1
log_loggable(lv) == IF lv > level THEN 0 ELSE 1

\* number of characters "%d" formats a level to
Digits(n) == IF n < 0 THEN 1 + (IF -n < 10 THEN 1 ELSE 2)
             ELSE IF n < 10 THEN 1 ELSE 2

\* errno: the value it had when the call was made, whatever that is, and
\* the values a failed open, close or write sets
EntryErrno == "entry"

OpenErrnos == {"EACCES", "ENOENT"}

CloseErrno == "EBADF"

WriteErrno == "EIO"

strerror(e) ==
    IF e = "EACCES" THEN "Permission denied"
    ELSE IF e = "ENOENT" THEN "No such file or directory"
    ELSE IF e = "EBADF" THEN "Bad file descriptor"
    ELSE "Input/output error"

\* strlen(strerror(errno)) after a failed open
StrErrorLens == {Len(strerror(e)) : e \in OpenErrnos}

\* the emission calls without the restoring of errno
errno_restore_Skipped(errno_save, cur) == cur

\* errno = errno_save
errno_restore(errno_save, cur) == errno_save

\* errno after an emission call entered with errno = e: the call that
\* returns at once leaves it alone, the others save it on entry, have it
\* set by a failing write, and restore it
EmitErrno(o, e) ==
    IF o.sys = <<>> /\ o.fmt = NoFmt THEN e
    ELSE errno_restore(e, IF \E i \in DOMAIN o.sys :
                                 o.sys[i].call = "write" /\ ~o.sys[i].ok
                            THEN WriteErrno ELSE e)

\* errno after close(f)
CloseSetsErrno(f, e) == IF f \in open_fds THEN e ELSE CloseErrno

\* "opening log file '%s' failed: %s"
InitMsgNeed(nm, elen) == 28 + strlen(nm) + elen

InitMsgText(nm, e) == "opening log file '" \o nm \o "' failed: " \o strerror(e)

\* "reopening log file '%s' failed, ignored: %s"
ReopenMsgNeed(nm, elen) == 39 + strlen(nm) + elen

ReopenMsgText(nm, e) ==
    "reopening log file '" \o nm \o "' failed, ignored: " \o strerror(e)

\* loga(...) is _log(__FILE__, __LINE__, 0, ...) from nc_log.c, at a line
\* number of three digits
LogaOutcomes(mneed) == LogOutcomes(8, 3, FALSE, mneed)

LogaText(o, line, msg) == Written(o, <<PrefixText("nc_log.c", DecStr(line)), msg>>)

(***************************************************************************)
(* Threads.  The logger has no lock of its own; when several threads call  *)
(* it, each statement that reads or writes the logger is a step of its     *)
(* own, and the steps of the threads interleave unless the callers         *)
(* serialize their calls (mode "serial": a call starts only when no other  *)
(* is under way).  race.pc is where each thread is in its call, race.tmp   *)
(* the value of l->nerror it has loaded, race.failed counts the writes     *)
(* that failed and race.stale tells that a line was written to a           *)
(* descriptor that was not open.                                           *)
(***************************************************************************)
Threads == {"t1", "t2"}

NoRace ==
    [mode   |-> "none",
     lock   |-> "free",
     pc     |-> [t \in Threads |-> "idle"],
     tmp    |-> [t \in Threads |-> 0],
     failed |-> 0,
     stale  |-> FALSE]

(***************************************************************************)
(* The state before log_init: the logger is a zero-initialised static.     *)
(***************************************************************************)
NoArg == <<>>

NoRet == <<>>

Init ==
    /\ level = 0
    /\ name = NullName
    /\ fd = 0
    /\ nerror = 0
    /\ open_fds = {}
    /\ alive = TRUE
    /\ tick = 0
    /\ op = "none"
    /\ arg = NoArg
    /\ ret = NoRet
    /\ sys = <<>>
    /\ fmt = NoFmt
    /\ out = NoText
    /\ errno = EntryErrno
    /\ race = NoRace

\* what every call does to the record of the last call; the call is made
\* with no other call under way
Called(o, a, r, s, f, dead) ==
    /\ alive
    /\ UNCHANGED race
    /\ tick' = 1 - tick
    /\ op' = o
    /\ arg' = a
    /\ ret' = r
    /\ sys' = s
    /\ fmt' = f
    /\ alive' = ~dead

\* a call that writes nothing and leaves errno alone
Quiet == out' = NoText /\ errno' = EntryErrno

\* the logger is used once log_init has been called
Inited == op # "none"

(***************************************************************************)
(* Lifecycle                                                               *)
(***************************************************************************)
\* log_init: name == NULL || !strlen(name)
InitToStderr(nm) == nm = NullName \/ strlen(nm) = 0

\* log_deinit without its test for standard error
DeinitCloses_AnyValid == ~(fd < 0)

\* log_deinit closes unless l->fd < 0 || l->fd == STDERR_FILENO
DeinitCloses == ~(fd < 0 \/ fd = STDERR_FILENO)

\* log_reopen with the test log_deinit makes
ReopenActs_ValidOnly == ~(fd < 0 \/ fd = STDERR_FILENO)

\* log_reopen acts if l->fd != STDERR_FILENO
ReopenActs == fd # STDERR_FILENO

\* log_reopen keeping the old descriptor when open fails
ReopenFd_KeepOnFailure(f, old) == IF f < 0 THEN old ELSE f

\* log_reopen: l->fd = open(...), whatever open returned (old is the
\* descriptor just closed)
ReopenFd(f, old) == f

log_init ==
    \E lv \in SetArgs, nm \in Names :
        /\ level' = ClampLevel(lv)
        /\ name' = nm
        /\ IF InitToStderr(nm)
           THEN /\ fd' = STDERR_FILENO
                /\ UNCHANGED <<nerror, open_fds>>
                /\ Quiet
                /\ Called("log_init", <<lv>>, <<0>>, <<>>, NoFmt, FALSE)
           ELSE \E f \in OpenResults(open_fds) :
                /\ fd' = f
                /\ IF f < 0
                   THEN \E e \in OpenErrnos :
                        \E o \in StderrOutcomes(InitMsgNeed(nm, Len(strerror(e)))) :
                            /\ nerror' = nerror + o.err
                            /\ UNCHANGED open_fds
                            /\ out' = Written(o, <<InitMsgText(nm, e)>>)
                            /\ errno' = EmitErrno(o, e)
                            /\ Called("log_init", <<lv>>,
                                      IF o.dead THEN NoRet ELSE <<-1>>,
                                      <<SysOpen(f)>> \o o.sys, o.fmt, o.dead)
                   ELSE /\ open_fds' = open_fds \cup {f}
                        /\ UNCHANGED nerror
                        /\ Quiet
                        /\ Called("log_init", <<lv>>, <<0>>, <<SysOpen(f)>>,
                                  NoFmt, FALSE)

log_deinit ==
    /\ Inited
    /\ IF DeinitCloses
       THEN /\ open_fds' = open_fds \ {fd}
            /\ out' = NoText
            /\ errno' = CloseSetsErrno(fd, EntryErrno)
            /\ Called("log_deinit", NoArg, NoRet, <<SysClose(fd)>>, NoFmt, FALSE)
       ELSE /\ UNCHANGED open_fds
            /\ Quiet
            /\ Called("log_deinit", NoArg, NoRet, <<>>, NoFmt, FALSE)
    /\ UNCHANGED logger

\* log_reopen without its close
AfterClose_Forgotten(held, f) == held

\* close(l->fd): the descriptors still open afterwards
AfterClose(held, f) == held \ {f}

log_reopen ==
    /\ Inited
    /\ IF ReopenActs
       THEN \E f \in OpenResults(AfterClose(open_fds, fd)) :
            /\ fd' = ReopenFd(f, fd)
            /\ IF f < 0
               THEN \E e \in OpenErrnos :
                    \E o \in StderrOutcomes(ReopenMsgNeed(name, Len(strerror(e)))) :
                        /\ nerror' = nerror + o.err
                        /\ open_fds' = AfterClose(open_fds, fd)
                        /\ out' = Written(o, <<ReopenMsgText(name, e)>>)
                        /\ errno' = EmitErrno(o, e)
                        /\ Called("log_reopen", NoArg, NoRet,
                                  <<SysClose(fd), SysOpen(f)>> \o o.sys,
                                  o.fmt, o.dead)
               ELSE /\ open_fds' = AfterClose(open_fds, fd) \cup {f}
                    /\ UNCHANGED nerror
                    /\ out' = NoText
                    /\ errno' = CloseSetsErrno(fd, EntryErrno)
                    /\ Called("log_reopen", NoArg, NoRet,
                              <<SysClose(fd), SysOpen(f)>>, NoFmt, FALSE)
       ELSE /\ UNCHANGED <<fd, nerror, open_fds>>
            /\ Quiet
            /\ Called("log_reopen", NoArg, NoRet, <<>>, NoFmt, FALSE)
    /\ UNCHANGED <<level, name>>

(***************************************************************************)
(* Level control                                                           *)
(***************************************************************************)
\* log_level_up with its test off by one
LevelUpActs_OffByOne == level <= LOG_PVERB

\* log_level_up acts if l->level < LOG_PVERB
LevelUpActs == level < LOG_PVERB

\* log_level_down acts if l->level > LOG_EMERG
LevelDownActs == level > LOG_EMERG

log_level_up ==
    /\ Inited
    /\ IF LevelUpActs
       THEN /\ level' = level + 1
            /\ \E o \in LogaOutcomes(16 + Digits(level + 1)) :
                /\ nerror' = nerror + o.err
                /\ out' = LogaText(o, 110, "up log level to " \o DecStr(level + 1))
                /\ errno' = EmitErrno(o, EntryErrno)
                /\ Called("log_level_up", NoArg, NoRet, o.sys, o.fmt, o.dead)
       ELSE /\ UNCHANGED <<level, nerror>>
            /\ Quiet
            /\ Called("log_level_up", NoArg, NoRet, <<>>, NoFmt, FALSE)
    /\ UNCHANGED <<name, fd, open_fds>>

log_level_down ==
    /\ Inited
    /\ IF LevelDownActs
       THEN /\ level' = level - 1
            /\ \E o \in LogaOutcomes(18 + Digits(level - 1)) :
                /\ nerror' = nerror + o.err
                /\ out' = LogaText(o, 129, "down log level to " \o DecStr(level - 1))
                /\ errno' = EmitErrno(o, EntryErrno)
                /\ Called("log_level_down", NoArg, NoRet, o.sys, o.fmt, o.dead)
       ELSE /\ UNCHANGED <<level, nerror>>
            /\ Quiet
            /\ Called("log_level_down", NoArg, NoRet, <<>>, NoFmt, FALSE)
    /\ UNCHANGED <<name, fd, open_fds>>

log_level_set ==
    /\ Inited
    /\ \E lv \in SetArgs :
        /\ level' = ClampLevel(lv)
        /\ \E o \in LogaOutcomes(17 + Digits(ClampLevel(lv))) :
            /\ nerror' = nerror + o.err
            /\ out' = LogaText(o, 148, "set log level to " \o DecStr(ClampLevel(lv)))
            /\ errno' = EmitErrno(o, EntryErrno)
            /\ Called("log_level_set", <<lv>>, NoRet, o.sys, o.fmt, o.dead)
    /\ UNCHANGED <<name, fd, open_fds>>

\* a call of log_loggable(lv)
loggable ==
    /\ Inited
    /\ \E lv \in LevelArgs :
        Called("log_loggable", <<lv>>, <<log_loggable(lv)>>, <<>>, NoFmt, FALSE)
    /\ Quiet
    /\ UNCHANGED <<logger, open_fds>>

(***************************************************************************)
(* Emission.  Each action takes the sets its inputs are drawn from.        *)
(***************************************************************************)
Levels == LOG_EMERG .. LOG_PVERB

B2N(b) == IF b THEN 1 ELSE 0

\* the text of a line: the file name and the line number are those of the
\* call, the message is what its format and arguments format to
LogText(o, flen, digits, mneed) ==
    Written(o, <<PrefixText(FileName(flen), LineNo(digits)), Message(mneed)>>)

\* a direct call of _log, for a message the caller means to have severity
\* lv; _log is not told lv
log(LV, FL, DG, ML, PN) ==
    /\ Inited
    /\ \E lv \in LV, flen \in FL, digits \in DG, mneed \in ML, panic \in PN :
       \E o \in LogOutcomes(flen, digits, panic, mneed) :
            /\ nerror' = nerror + o.err
            /\ out' = LogText(o, flen, digits, mneed)
            /\ errno' = EmitErrno(o, EntryErrno)
            /\ Called("_log", <<lv, B2N(panic), flen, digits, mneed>>, NoRet,
                      o.sys, o.fmt, o.dead)
    /\ UNCHANGED <<level, name, fd, open_fds>>

\* a levelled log statement that does not panic (log_debug, log_error, ...):
\* if (log_loggable(lv) != 0) { _log(__FILE__, __LINE__, 0, ...); }
log_stmt(LV, FL, DG, ML) ==
    /\ Inited
    /\ \E lv \in LV, flen \in FL, digits \in DG, mneed \in ML :
        IF log_loggable(lv) # 0
        THEN \E o \in LogOutcomes(flen, digits, FALSE, mneed) :
                /\ nerror' = nerror + o.err
                /\ out' = LogText(o, flen, digits, mneed)
                /\ errno' = EmitErrno(o, EntryErrno)
                /\ Called("log_stmt", <<lv, 0, flen, digits, mneed>>, NoRet,
                          o.sys, o.fmt, o.dead)
        ELSE /\ UNCHANGED nerror
             /\ Quiet
             /\ Called("log_stmt", <<lv, 0, flen, digits, mneed>>, NoRet,
                       <<>>, NoFmt, FALSE)
    /\ UNCHANGED <<level, name, fd, open_fds>>

\* a call of _log_stderr
log_stderr(ML) ==
    /\ Inited
    /\ \E mneed \in ML :
       \E o \in StderrOutcomes(mneed) :
            /\ nerror' = nerror + o.err
            /\ out' = Written(o, <<Message(mneed)>>)
            /\ errno' = EmitErrno(o, EntryErrno)
            /\ Called("_log_stderr", NoArg, NoRet, o.sys, o.fmt, o.dead)
    /\ UNCHANGED <<level, name, fd, open_fds>>

\* a call of _log_hexdump, on datalen bytes made of the bytes of pat
log_hexdump(DL, PT) ==
    /\ Inited
    /\ \E datalen \in DL, pat \in PT :
       \E o \in HexdumpOutcomes(datalen) :
            /\ nerror' = nerror + o.err
            /\ out' = Written(o, <<HexText(Data(datalen, pat), 0, o.fmt.wlen)>>)
            /\ errno' = EmitErrno(o, EntryErrno)
            /\ Called("_log_hexdump", <<datalen, pat>>, NoRet, o.sys, o.fmt, o.dead)
    /\ UNCHANGED <<level, name, fd, open_fds>>

(***************************************************************************)
(* The program: any sequence of calls.  A line's message is a short one    *)
(* or one as long as the whole line buffer.                                *)
(***************************************************************************)
ShortFile == {8}

ShortDigits == {3}

ShortMsg == {20}

LineMsg == ShortMsg \cup {LOG_MAX_LEN}

ShortData == {0, 1}

\* the bytes of the data: 'A'
ShortBytes == {<<65>>}

\* the severities of the messages passed to _log directly: the most and
\* the least severe
DirectLevels == {LOG_EMERG, LOG_PVERB}

LogLine == log(DirectLevels, ShortFile, ShortDigits, LineMsg, BOOLEAN)

LogStatement == log_stmt(Levels, ShortFile, ShortDigits, ShortMsg)

LogToStderr == log_stderr(ShortMsg)

LogHexDump == log_hexdump(ShortData, ShortBytes)

Next ==
    \/ log_init
    \/ log_deinit
    \/ log_reopen
    \/ log_level_up
    \/ log_level_down
    \/ log_level_set
    \/ loggable
    \/ LogLine
    \/ LogStatement
    \/ LogToStderr
    \/ LogHexDump

Spec == Init /\ [][Next]_vars

(***************************************************************************)
(* The formatting on its own: the logger as a successful log_init leaves   *)
(* it, and emission calls whose texts range over lengths around the        *)
(* capacities of their buffers.                                            *)
(***************************************************************************)
Around(n) == (n - LenSlack) .. (n + LenSlack)

\* file names: short ones, and those that bring the prefix to the capacity
LongFile == (1 .. (1 + LenSlack)) \cup Around(LOG_MAX_LEN - PrefixNeed(0, 1))

\* line numbers of one digit and of ten
LongDigits == {1, 10}

\* messages: empty or short, half a line, those that fill the line after a
\* short prefix, and a whole line
LongMsg ==
    (0 .. LenSlack) \cup Around(LOG_MAX_LEN \div 2)
        \cup Around(LOG_MAX_LEN - PrefixNeed(1, 1)) \cup Around(LOG_MAX_LEN)

\* messages for _log_stderr: short ones, and those around its capacity
LongErrMsg == (0 .. LenSlack) \cup Around(4 * LOG_MAX_LEN)

\* data blocks: none, less than a row, a row and more, and those whose
\* dump fills the buffer (a full row takes 80 characters)
LongData ==
    (0 .. LenSlack) \cup {16, 20}
        \cup Around(16 * ((8 * LOG_MAX_LEN) \div 80)) \cup {8 * LOG_MAX_LEN}

FmtInit ==
    /\ level = LOG_PVERB
    /\ name \in {"", "nc.log"}
    /\ fd = IF InitToStderr(name) THEN STDERR_FILENO ELSE FirstFd
    /\ nerror = 0
    /\ open_fds = IF InitToStderr(name) THEN {} ELSE {FirstFd}
    /\ alive = TRUE
    /\ tick = 0
    /\ op = "log_init"
    /\ arg = <<LOG_PVERB>>
    /\ ret = <<0>>
    /\ sys = IF InitToStderr(name) THEN <<>> ELSE <<SysOpen(FirstFd)>>
    /\ fmt = NoFmt
    /\ out = NoText
    /\ errno = EntryErrno
    /\ race = NoRace

FmtLogLine == log({LOG_PVERB}, LongFile, LongDigits, LongMsg, {FALSE})

FmtLogToStderr == log_stderr(LongErrMsg)

FmtLogHexDump == log_hexdump(LongData, ShortBytes)

FmtNext ==
    \/ FmtLogLine
    \/ FmtLogToStderr

FmtSpec == FmtInit /\ [][FmtNext]_vars

\* the same for the dump, whose formatting takes the longest
HexNext == FmtLogHexDump

HexSpec == FmtInit /\ [][HexNext]_vars

(***************************************************************************)
(* The logger of a file through its reopenings: the logger as a successful *)
(* log_init on a path leaves it, then any calls but log_init and           *)
(* log_deinit.                                                             *)
(***************************************************************************)
ReopenInit == FmtInit /\ ~InitToStderr(name)

ReopenNext ==
    \/ log_reopen
    \/ log_level_up
    \/ log_level_down
    \/ log_level_set
    \/ loggable
    \/ LogLine
    \/ LogStatement
    \/ LogToStderr
    \/ LogHexDump

ReopenSpec == ReopenInit /\ [][ReopenNext]_vars

(***************************************************************************)
(* Two threads calling _log and log_reopen on the logger of a file, their  *)
(* calls serialized or not.                                                *)
(***************************************************************************)
\* thread t may start a call
Enter(t) ==
    /\ race.mode # "none"
    /\ race.pc[t] = "idle"
    /\ race.mode = "serial" => race.lock = "free"

\* thread t goes on to label l of its call, or returns (l = "idle")
Goto(r, t, l) ==
    [r EXCEPT !.pc[t] = l,
              !.lock = IF r.mode = "serial" /\ l # "idle" THEN t ELSE "free"]

\* _log without its test of l->fd
LogSkips_Never == FALSE

\* _log returns at once if l->fd < 0
LogSkips == fd < 0

\* the results of a write: failures are counted up to MaxErrors + 1
RaceWriteResults == {TRUE} \cup (IF race.failed <= MaxErrors THEN {FALSE} ELSE {})

\* n = nc_write(f, buf, len) by thread t, then if (n < 0) the increment
AfterWrite(r, t, ok) ==
    IF ok THEN Goto(r, t, "idle")
    ELSE Goto([r EXCEPT !.failed = r.failed + 1], t, "load")

RaceFrame == UNCHANGED <<level, name, alive, tick, op, arg, ret, sys, fmt, out, errno>>

\* the callers are, or are not, serialized
race_start ==
    /\ race.mode = "none"
    /\ \E m \in {"serial", "free"} : race' = [race EXCEPT !.mode = m]
    /\ UNCHANGED <<fd, nerror, open_fds>>
    /\ RaceFrame

\* _log: if (l->fd < 0) return;
race_log_test ==
    \E t \in Threads :
        /\ Enter(t)
        /\ race' = Goto(race, t, IF LogSkips THEN "idle" ELSE "write")
        /\ UNCHANGED <<fd, nerror, open_fds>>
        /\ RaceFrame

\* _log: n = nc_write(l->fd, buf, len), with l->fd as it is now
race_log_write ==
    \E t \in Threads, ok \in RaceWriteResults :
        /\ race.pc[t] = "write"
        /\ race' = AfterWrite([race EXCEPT !.stale =
                                   race.stale \/ (fd # STDERR_FILENO /\ fd \notin open_fds)],
                              t, ok)
        /\ UNCHANGED <<fd, nerror, open_fds>>
        /\ RaceFrame

\* l->nerror++: the load
race_nerror_load ==
    \E t \in Threads :
        /\ race.pc[t] = "load"
        /\ race' = Goto([race EXCEPT !.tmp[t] = nerror], t, "store")
        /\ UNCHANGED <<fd, nerror, open_fds>>
        /\ RaceFrame

\* l->nerror++: the store
race_nerror_store ==
    \E t \in Threads :
        /\ race.pc[t] = "store"
        /\ nerror' = race.tmp[t] + 1
        /\ race' = Goto(race, t, "idle")
        /\ UNCHANGED <<fd, open_fds>>
        /\ RaceFrame

\* log_reopen: if (l->fd != STDERR_FILENO)
race_reopen_test ==
    \E t \in Threads :
        /\ Enter(t)
        /\ race' = Goto(race, t, IF ReopenActs THEN "close" ELSE "idle")
        /\ UNCHANGED <<fd, nerror, open_fds>>
        /\ RaceFrame

\* log_reopen: close(l->fd)
race_reopen_close ==
    \E t \in Threads :
        /\ race.pc[t] = "close"
        /\ open_fds' = AfterClose(open_fds, fd)
        /\ race' = Goto(race, t, "open")
        /\ UNCHANGED <<fd, nerror>>
        /\ RaceFrame

\* log_reopen: l->fd = open(...); if (l->fd < 0) log_stderr(...)
race_reopen_open ==
    \E t \in Threads :
        /\ race.pc[t] = "open"
        /\ \E f \in OpenResults(open_fds) :
            /\ fd' = ReopenFd(f, fd)
            /\ open_fds' = IF f < 0 THEN open_fds ELSE open_fds \cup {f}
            /\ race' = Goto(race, t, IF f < 0 THEN "notify" ELSE "idle")
        /\ UNCHANGED nerror
        /\ RaceFrame

\* _log_stderr: n = nc_write(STDERR_FILENO, buf, len)
race_notify_write ==
    \E t \in Threads, ok \in RaceWriteResults :
        /\ race.pc[t] = "notify"
        /\ race' = AfterWrite(race, t, ok)
        /\ UNCHANGED <<fd, nerror, open_fds>>
        /\ RaceFrame

RaceNext ==
    \/ race_start
    \/ race_log_test
    \/ race_log_write
    \/ race_nerror_load
    \/ race_nerror_store
    \/ race_reopen_test
    \/ race_reopen_close
    \/ race_reopen_open
    \/ race_notify_write

RaceSpec == ReopenInit /\ [][RaceNext]_vars

\* the dump's rows: short blocks, of one byte value and of mixed bytes,
\* printable ones and others
DumpData == {0, 1, 7, 8, 9, 15, 16, 17, 20, 32, 33}

DumpBytes == {<<65>>, <<0, 255>>, <<65, 10, 126, 127, 31, 32, 128>>}

DumpHexDump == log_hexdump(DumpData, DumpBytes)

DumpNext == DumpHexDump

DumpSpec == FmtInit /\ [][DumpNext]_vars

(***************************************************************************)
(* Properties                                                              *)
(***************************************************************************)
Calls(s, c) == {i \in DOMAIN s : s[i].call = c}

FailedWrites(s) == {i \in Calls(s, "write") : ~s[i].ok}

\* the calls that reach _log without a level check, and through one
LineOps == {"_log", "log_stmt"}

LevelOps == {"log_level_up", "log_level_down", "log_level_set"}

\* C1: threshold is always within [EMERG, PVERB]: log_init and log_level_set
\* store their argument clamped into the range, whatever the argument, and
\* log_level_up / log_level_down never step past either end.
C1_ThresholdInRange ==
    /\ LOG_EMERG <= level /\ level <= LOG_PVERB
    /\ op \in {"log_init", "log_level_set"} =>
          level = (IF arg[1] < LOG_EMERG THEN LOG_EMERG
                   ELSE IF arg[1] > LOG_PVERB THEN LOG_PVERB ELSE arg[1])

\* a level above the range was asked for and the top of the range was stored
C1_Witness ==
    op = "log_level_set" /\ arg[1] > LOG_PVERB /\ level = LOG_PVERB

C3_NoDoubleClose ==
    [][op' = "log_deinit" =>
        /\ (fd < 0 \/ fd = STDERR_FILENO) => Calls(sys', "close") = {}
        /\ (op = "log_deinit" /\ Calls(sys, "close") # {}) =>
                Calls(sys', "close") = {}]_vars

\* C4: every _log call with panic set ends in the termination of the
\* process, whatever the destination and whatever the write did.
C4_PanicAlwaysTerminates ==
    [][(op' = "_log" /\ arg'[2] = 1) => ~alive']_vars

\* C5: a log_init whose open fails returns -1, writes one notification to
\* standard error and leaves fd invalid; while fd is invalid every _log and
\* _log_hexdump call writes nothing, leaves nerror alone and does not end
\* the process.
C5_FailedInitDisables ==
    [][/\ (op' = "log_init" /\ \E i \in Calls(sys', "open") : ~sys'[i].ok) =>
            /\ alive'
            /\ ret' = <<-1>>
            /\ fd' < 0
            /\ Len(sys') = 2
            /\ sys'[2].call = "write" /\ sys'[2].fd = STDERR_FILENO
       /\ (fd < 0 /\ op' \in LineOps \cup {"_log_hexdump"}) =>
            /\ sys' = <<>>
            /\ fmt' = NoFmt
            /\ alive'
            /\ UNCHANGED <<logger, open_fds>>]_vars

\* a panicking _log call that did nothing, the path's open having failed
C5_Witness ==
    /\ op = "_log" /\ arg[2] = 1 /\ alive /\ sys = <<>>
    /\ fd < 0 /\ ~InitToStderr(name)

\* C6: after log_init with an empty or absent name, fd is standard error
\* and stays so under every later call but log_init: whatever a call
\* writes it writes to standard error, a _log call whose line stayed within
\* its buffer issues exactly one such write, and log_deinit and log_reopen
\* issue no system call.
C6_StderrStays ==
    [][(Inited /\ InitToStderr(name) /\ op' # "log_init") =>
        /\ fd = STDERR_FILENO /\ fd' = STDERR_FILENO
        /\ op' \in {"log_deinit", "log_reopen"} => sys' = <<>>
        /\ (op' = "_log" /\ ~fmt'.over) => Len(sys') = 1
        /\ \A i \in DOMAIN sys' :
              sys'[i].call = "write" /\ sys'[i].fd = STDERR_FILENO]_vars

\* log_reopen has been called on a logger of standard error
C6_Witness ==
    op = "log_reopen" /\ InitToStderr(name) /\ fd = STDERR_FILENO /\ sys = <<>>

C8_Loggable ==
    [][op' = "log_loggable" =>
        /\ ret' \in {<<0>>, <<1>>}
        /\ ret' = <<1>> <=> arg'[1] <= level
        /\ sys' = <<>>
        /\ UNCHANGED <<logger, open_fds>>]_vars

\* the level equal to a threshold inside the range was found loggable
C8_Witness ==
    /\ op = "log_loggable" /\ arg = <<level>> /\ ret = <<1>>
    /\ LOG_EMERG < level /\ level < LOG_PVERB

\* C9: a log_reopen whose open fails writes one notification to standard
\* error and goes on: the process lives, fd is invalid; while fd is invalid
\* no line and no dump is written; and only log_reopen and log_init ever
\* open the path.
C9_FailedReopenIgnored ==
    [][/\ (op' = "log_reopen" /\ \E i \in Calls(sys', "open") : ~sys'[i].ok) =>
            /\ alive'
            /\ fd' < 0
            /\ Cardinality(Calls(sys', "write")) = 1
            /\ \A i \in Calls(sys', "write") : sys'[i].fd = STDERR_FILENO
            /\ UNCHANGED <<level, name>>
       /\ (fd < 0 /\ op' \in LineOps \cup LevelOps \cup {"_log_hexdump"}) =>
            Calls(sys', "write") = {}
       /\ Calls(sys', "open") # {} => op' \in {"log_reopen", "log_init"}]_vars

\* a log_reopen has failed and returned
C9_Witness ==
    /\ op = "log_reopen" /\ alive /\ fd < 0
    /\ \E i \in Calls(sys, "open") : ~sys[i].ok

\* C10: nerror grows by one for each failed write of a call and by nothing
\* else, so it never decreases and is never reset; an emission call whose
\* write fails changes nothing else of the logger and returns nothing.
C10_ErrorCount ==
    [][/\ nerror' = nerror + Cardinality(FailedWrites(sys'))
       /\ op' \in LineOps \cup {"_log_stderr", "_log_hexdump"} =>
            /\ UNCHANGED <<level, name, fd, open_fds>>
            /\ ret' = NoRet]_vars

\* a write of _log has failed and has been counted
C10_Witness ==
    op = "_log" /\ FailedWrites(sys) # {} /\ nerror > 0 /\ alive

C12_ErrnoKept ==
    [][(op' \in LineOps \cup {"_log_stderr", "_log_hexdump"} /\ alive') =>
            errno' = EntryErrno]_vars

\* a _log call whose write failed, setting errno, has returned
C12_Witness ==
    /\ op = "_log" /\ alive /\ FailedWrites(sys) # {}
    /\ errno = EntryErrno

\* C13: _log_stderr looks at neither the threshold nor the destination: in
\* every state of the logger (any level; fd a file, standard error or
\* invalid) a call issues exactly one system call, a write to standard
\* error, and leaves level, fd and name as they were.
C13_StderrUnconditional ==
    [][op' = "_log_stderr" =>
        /\ Len(sys') = 1
        /\ sys'[1].call = "write" /\ sys'[1].fd = STDERR_FILENO
        /\ sys'[1].len = Len(out')
        /\ UNCHANGED <<level, name, fd, open_fds>>]_vars

\* _log_stderr has written with the destination invalid and the level at
\* its lowest
C13_Witness ==
    /\ op = "_log_stderr" /\ fd < 0 /\ level = LOG_EMERG
    /\ Len(sys) = 1 /\ sys[1].fd = STDERR_FILENO /\ sys[1].ok

\* C14: log_level_up at LOG_PVERB and log_level_down at LOG_EMERG do
\* nothing: level, fd, name and nerror stay and nothing is written; in
\* every other state log_level_up adds exactly one to the level and
\* log_level_down takes exactly one from it.
C14_LevelSteps ==
    [][/\ op' = "log_level_up" =>
            IF level = LOG_PVERB
            THEN sys' = <<>> /\ out' = NoText /\ UNCHANGED <<logger, open_fds>>
            ELSE level' = level + 1 /\ UNCHANGED <<name, fd>>
       /\ op' = "log_level_down" =>
            IF level = LOG_EMERG
            THEN sys' = <<>> /\ out' = NoText /\ UNCHANGED <<logger, open_fds>>
            ELSE level' = level - 1 /\ UNCHANGED <<name, fd>>]_vars

\* log_level_up has been called at LOG_PVERB on a valid destination, and
\* wrote nothing
C14_Witness ==
    op = "log_level_up" /\ level = LOG_PVERB /\ fd >= 0 /\ sys = <<>>

\* the length of the dump of n bytes: 80 characters for a row of 16 bytes,
\* 64 + k for a last row of k
DumpLen(n) == 80 * (n \div 16) + (IF n % 16 = 0 THEN 0 ELSE 64 + (n % 16))

\* C15: for n bytes whose dump fits the buffer, _log_hexdump writes
\* ceil(n/16) rows; row r has the offset 16r in 8 hex digits, then 16
\* fields of two characters, each followed by a blank and the 8th by two:
\* the first min(16, n - 16r) fields are bytes in hex, the others blank;
\* then "|", one character a byte, '.' for a byte that is not printable,
\* "|" and a newline.  20 bytes 0x41 give the two rows written out below.
C15_DumpRows ==
    (/\ op = "_log_hexdump"
     /\ Calls(sys, "write") # {}
     /\ DumpLen(arg[1]) <= 8 * LOG_MAX_LEN - 1) =>
        LET n    == arg[1]
            data == Data(n, arg[2])
            rows == (n + 15) \div 16
        IN  /\ Len(out) = DumpLen(n)
            /\ sys[1].len = Len(out)
            /\ \A r \in 0 .. (rows - 1) :
                LET k   == IF n - 16 * r < 16 THEN n - 16 * r ELSE 16
                    row == SubSeq(out, 80 * r + 1, 80 * r + 64 + k)
                IN  /\ SubSeq(row, 1, 10) = Hex(16 * r, 8) \o "  "
                    /\ \A j \in 1 .. 16 :
                        LET p == 11 + 3 * (j - 1) + (IF j > 8 THEN 1 ELSE 0)
                        IN  /\ SubSeq(row, p, p + 1) =
                                  (IF j <= k THEN Hex(data[16 * r + j], 2) ELSE "  ")
                            /\ SubSeq(row, p + 2, p + 2) = " "
                    /\ SubSeq(row, 35, 35) = " "
                    /\ SubSeq(row, 60, 62) = "  |"
                    /\ \A j \in 1 .. k :
                        SubSeq(row, 62 + j, 62 + j) =
                            (IF 32 <= data[16 * r + j] /\ data[16 * r + j] <= 126
                             THEN Chr(data[16 * r + j]) ELSE ".")
                    /\ SubSeq(row, 63 + k, 64 + k) = "|\n"
            /\ (n = 20 /\ arg[2] = <<65>>) =>
                out = "00000000  41 41 41 41 41 41 41 41  41 41 41 41 41 41 41 41   |AAAAAAAAAAAAAAAA|\n"
                      \o "00000010  41 41 41 41                                        |AAAA|\n"

\* 20 bytes 0x41 have been dumped in two rows
C15_Witness ==
    /\ op = "_log_hexdump" /\ arg = <<20, <<65>>>>
    /\ Len(sys) = 1 /\ sys[1].ok /\ Len(out) = 80 + 68

\* C16: from a successful log_init on a path, through any log_reopen calls,
\* failing or not, and any emission and level calls between them, the
\* logger never holds a descriptor open besides l->fd: log_reopen closes
\* l->fd and then opens the path, so at most one descriptor the logger
\* opened is open, and it is l->fd.
C16_OneHandle ==
    /\ open_fds \subseteq {fd}
    /\ Cardinality(open_fds) <= 1
    /\ (op = "log_reopen" /\ sys # <<>>) =>
            /\ sys[1].call = "close" /\ sys[1].fd \notin open_fds \ {fd}
            /\ sys[2].call = "open"
            /\ Cardinality(Calls(sys, "open")) = 1
            /\ IF sys[2].ok THEN fd = sys[2].fd /\ open_fds = {fd}
               ELSE fd < 0 /\ open_fds = {}

\* a log_reopen has closed the open file and opened the path again
C16_Witness ==
    /\ op = "log_reopen" /\ Len(sys) = 2
    /\ sys[1].call = "close" /\ sys[1].ok
    /\ sys[2].call = "open" /\ sys[2].ok
    /\ open_fds = {fd}

\* C17: for every data length, also one whose dump the buffer cannot hold,
\* _log_hexdump ends, stops making rows once the buffer is nearly full and
\* never overruns it: the running length never exceeds the buffer's
\* 8 * LOG_MAX_LEN bytes where it indexes the buffer, nothing is stored
\* outside the buffer, and the one write gets at most that many bytes.
C17_DumpWithinBuffer ==
    (op = "_log_hexdump" /\ fmt # NoFmt) =>
        /\ fmt.size = 8 * LOG_MAX_LEN
        /\ \A i \in DOMAIN fmt.lens : 0 <= fmt.lens[i] /\ fmt.lens[i] <= fmt.size
        /\ ~fmt.over
        /\ fmt.wlen <= fmt.size
        /\ Cardinality(Calls(sys, "write")) = 1
        /\ \A i \in Calls(sys, "write") : sys[i].len <= fmt.size

\* the logger of a path whose open has failed
Degraded == fd < 0 /\ ~InitToStderr(name)

\* C18: a logger whose log_init or log_reopen failed to open its path stays
\* without a destination until a log_reopen succeeds: no other call (a new
\* log_init aside) makes fd valid, and nothing is written to a file
\* meanwhile; every log_reopen tries the path again, and the one whose open
\* succeeds makes fd the open file, to which the next _log call writes.
C18_DegradedUntilReopen ==
    [][/\ (Degraded /\ op' # "log_init") =>
            /\ \A i \in Calls(sys', "write") : sys'[i].fd = STDERR_FILENO
            /\ op' = "log_reopen" => Cardinality(Calls(sys', "open")) = 1
            /\ IF op' = "log_reopen" /\ \E i \in Calls(sys', "open") : sys'[i].ok
               THEN fd' >= 0 /\ fd' # STDERR_FILENO /\ fd' \in open_fds'
               ELSE fd' < 0 /\ UNCHANGED <<name, open_fds>>
       /\ (/\ op = "log_reopen" /\ fd \in open_fds
           /\ op' \in LineOps
           /\ op' = "log_stmt" => arg'[1] <= level
           /\ alive' \/ sys' # <<>>) =>
            /\ Cardinality(Calls(sys', "write")) = 1
            /\ \A i \in Calls(sys', "write") : sys'[i].fd = fd]_vars

\* a log_reopen on a logger without a destination has opened the path
C18_Witness ==
    /\ op = "log_reopen" /\ Len(sys) = 2
    /\ sys[1].call = "close" /\ sys[1].fd < 0
    /\ sys[2].call = "open" /\ sys[2].ok
    /\ fd \in open_fds

\* C19: no call issues a write or a close on a descriptor the logger has
\* closed or on an invalid one: every write goes to standard error or to a
\* descriptor the logger has open, and every close is of one it has open
\* (so log_reopen closes nothing when l->fd is invalid, and nothing uses
\* the descriptor log_deinit has closed).
C19_NoStaleHandle ==
    [][\A i \in DOMAIN sys' :
        /\ sys'[i].call = "write" =>
                sys'[i].fd = STDERR_FILENO \/ sys'[i].fd \in open_fds
        /\ sys'[i].call = "close" => sys'[i].fd \in open_fds]_vars

\* the increments of l->nerror under way
Pending == {t \in Threads : race.pc[t] \in {"load", "store"}}

\* C20: with the calls of two threads serialized, _log and log_reopen never
\* write a line to a descriptor that is not open, and l->nerror counts
\* every failed write; without serialization both can happen (the state
\* below, where a _log wrote to the descriptor a log_reopen had closed and
\* two failed writes raised l->nerror by one).
C20_SerializedSafe ==
    race.mode = "serial" =>
        /\ ~race.stale
        /\ nerror + Cardinality(Pending) = race.failed

\* not serialized: a line went to a closed descriptor, and two writes
\* failed but l->nerror is one
C20_Witness ==
    /\ race.mode = "free"
    /\ race.stale
    /\ race.failed = 2 /\ nerror = 1
    /\ \A t \in Threads : race.pc[t] = "idle"

====
